---- MODULE Spec2Model ----
(***************************************************************************)
(* Model of package sqlarfs (src/sqlarfs/sqlarfs.go): an io/fs view of an  *)
(* SQLite Archive table.  Strings are sequences of one-character strings,  *)
(* so that SUBSTR, INSTR, LIKE and filepath.Split are computed character   *)
(* by character, exactly as the SQL and Go code compute them.              *)
(***************************************************************************)
EXTENDS Integers, Sequences, FiniteSets, TLC

VARIABLES store, permMask, dirInfo, last, fh, callers

vars == <<store, permMask, dirInfo, last, fh, callers>>

(***************************************************************************)
(* Bounds of the model.                                                    *)
(***************************************************************************)
MaxRows == 3
MaxBuf == 2
NumCallers == 2

(***************************************************************************)
(* Mode bits and permission masks.                                         *)
(***************************************************************************)
S_IFREG == 32768
S_IFDIR == 16384
S_IFMT == 61440
PermOwner == 448
PermGroup == 56
PermOthers == 7
PermAny == 511
PermBits == 511
ReadBits == 292
ExecBits == 73
TypeBits == 49152
dirMode == 16749

\* the values PermMask.apply accepts
PermMasks == {PermOwner, PermGroup, PermOthers, PermAny}

\* the masks the filesystem is constructed with: one triad, and all three
InitMasks == {PermOthers, PermAny}

RECURSIVE BitAnd(_, _)
BitAnd(a, b) ==
    IF a = 0 \/ b = 0 THEN 0
    ELSE (a % 2) * (b % 2) + 2 * BitAnd(a \div 2, b \div 2)

canRead(mask, mode) == BitAnd(BitAnd(mode, ReadBits), mask) # 0

canTraverse(mask, mode) == BitAnd(BitAnd(mode, ExecBits), mask) # 0

\* sqlModeFilter: ((mode&49152)>>9)<>0
sqlModeFilter(mode) == (BitAnd(mode, TypeBits) \div 512) # 0

\* sqlModeFilterReg: (mode&32768)<>0
sqlModeFilterReg(mode) == BitAnd(mode, S_IFREG) # 0

\* fileinfo.IsDir
IsDir(fi) == BitAnd(fi.mode, S_IFDIR) # 0

\* fileinfo.Mode: the io/fs type of the entry and its permission bits
ModeType(fi) ==
    IF BitAnd(fi.mode, S_IFMT) = S_IFDIR THEN "dir" ELSE "regular"

ModePerm(fi) == BitAnd(fi.mode, PermBits)

(***************************************************************************)
(* Strings.                                                                *)
(***************************************************************************)
Slash == "/"
Dot == <<".">>
escapeLikeChar == "§"

\* byte order of the characters the model uses
Code(c) ==
    CASE c = "." -> 46
      [] c = "/" -> 47
      [] c = "A" -> 65
      [] c = "a" -> 97
      [] c = "b" -> 98
      [] OTHER -> 200

\* ASCII case folding, as applied by SQLite's LIKE
Fold(c) == IF c = "A" THEN "a" ELSE c

RECURSIVE StrLess(_, _)
StrLess(s, t) ==
    IF t = <<>> THEN FALSE
    ELSE IF s = <<>> THEN TRUE
    ELSE IF Code(Head(s)) # Code(Head(t)) THEN Code(Head(s)) < Code(Head(t))
    ELSE StrLess(Tail(s), Tail(t))

\* SUBSTR(x, y): the characters of x from the y-th (1-based) to the end
Substr2(x, y) == IF y > Len(x) THEN <<>> ELSE SubSeq(x, y, Len(x))

\* SUBSTR(x, y, z): z characters of x from the y-th on
Substr3(x, y, z) ==
    IF z <= 0 \/ y > Len(x) THEN <<>>
    ELSE SubSeq(x, y, IF y + z - 1 > Len(x) THEN Len(x) ELSE y + z - 1)

\* INSTR(x, c): 1-based position of the first c in x, 0 when absent
Instr(x, c) ==
    IF \E i \in 1..Len(x) : x[i] = c
    THEN CHOOSE i \in 1..Len(x) : x[i] = c /\ \A j \in 1..(i - 1) : x[j] # c
    ELSE 0

RECURSIVE Like(_, _)
Like(pat, str) ==
    IF pat = <<>> THEN str = <<>>
    ELSE IF Head(pat) = escapeLikeChar
    THEN /\ Len(pat) >= 2
         /\ str # <<>>
         /\ Fold(pat[2]) = Fold(Head(str))
         /\ Like(Tail(Tail(pat)), Tail(str))
    ELSE IF Head(pat) = "%"
    THEN Like(Tail(pat), str) \/ (str # <<>> /\ Like(pat, Tail(str)))
    ELSE IF Head(pat) = "_"
    THEN str # <<>> /\ Like(Tail(pat), Tail(str))
    ELSE /\ str # <<>>
         /\ Fold(Head(pat)) = Fold(Head(str))
         /\ Like(Tail(pat), Tail(str))

RECURSIVE escapeLike(_)
escapeLike(s) ==
    IF s = <<>> THEN <<>>
    ELSE IF Head(s) \in {"%", "_", "!"}
    THEN <<escapeLikeChar, Head(s)>> \o escapeLike(Tail(s))
    ELSE <<Head(s)>> \o escapeLike(Tail(s))

\* io/fs.ValidPath
RECURSIVE ValidElems(_)
ValidElems(name) ==
    LET i == Instr(name, Slash)
        elem == IF i = 0 THEN name ELSE SubSeq(name, 1, i - 1)
    IN  IF elem = <<>> \/ elem = <<".">> \/ elem = <<".", ".">> THEN FALSE
        ELSE IF i = 0 THEN TRUE
        ELSE ValidElems(Substr2(name, i + 1))

ValidPath(name) == name = Dot \/ ValidElems(name)

\* position of the last '/' in name, 0 when absent
LastSlash(name) ==
    IF \E i \in 1..Len(name) : name[i] = Slash
    THEN CHOOSE i \in 1..Len(name) :
            name[i] = Slash /\ \A j \in (i + 1)..Len(name) : name[j] # Slash
    ELSE 0

\* filepath.Split: dir keeps its trailing '/'
SplitDir(name) == SubSeq(name, 1, LastSlash(name))

SplitFile(name) == Substr2(name, LastSlash(name) + 1)

(***************************************************************************)
(* The sqlar table.  A row is (rowid, name, mode, mtime, sz, data); data   *)
(* is kept as the stored length and the length it inflates to.             *)
(***************************************************************************)
D755 == 16877
D700 == 16832
F644 == 33188
F600 == 33152
BrokenNone == 420
BrokenBoth == 49645

Row(name, mode, sz, blen, plain) ==
    [name |-> name, mode |-> mode, mtime |-> 1, sz |-> sz,
     blen |-> blen, plain |-> plain]

\* the rows a table is drawn from, in rowid order
CandRows ==
    << Row(<<"a", "a", "/">>, F644, 2, 2, 2),
       Row(<<"a", "/", "b", "/", "a">>, F644, 2, 3, 2),
       Row(<<"A", "/", "b">>, D755, 0, 0, 0),
       Row(<<"a", "/", "b">>, D700, 0, 0, 0),
       Row(<<"a", "/", "b">>, F600, 2, 2, 2),
       Row(<<"a", "/", "b">>, BrokenNone, 2, 2, 2),
       Row(<<"a">>, D755, 0, 0, 0),
       Row(<<"a">>, D700, 0, 0, 0),
       Row(<<"a">>, F644, 2, 1, -1),
       Row(<<"a">>, BrokenBoth, 0, 0, 0),
       Row(<<".">>, D700, 0, 0, 0),
       Row(<<".">>, BrokenNone, 0, 0, 0) >>

RECURSIVE Ascending(_)
Ascending(S) ==
    IF S = {} THEN <<>>
    ELSE LET m == CHOOSE x \in S : \A y \in S : x <= y
         IN  <<m>> \o Ascending(S \ {m})

\* tables of at most MaxRows candidate rows with distinct names (name is the
\* primary key of sqlar)
Tables ==
    { [k \in 1..Cardinality(S) |-> CandRows[Ascending(S)[k]]] :
        S \in { T \in SUBSET (1..Len(CandRows)) :
                    /\ Cardinality(T) <= MaxRows
                    /\ \A i, j \in T :
                          i # j => CandRows[i].name # CandRows[j].name } }

\* paths the client asks for
OpPaths ==
    { <<".">>, <<"a">>, <<"a", "/", "b">>, <<"a", "/", "b", "/", "a">>,
      <<"a", "/">> }

(***************************************************************************)
(* file and dir handles carry, next to the fields of the Go struct (fs as   *)
(* "f.fs != nil", r and what is left to read, entries), hist: whether Read *)
(* or Close has been called on the handle ("new", "read", "closed").       *)
(* fileinfo.  ptr names the allocation (who allocated it, for which key),  *)
(* so that two entries can be compared by identity and not only by value.  *)
(***************************************************************************)
NoInfo ==
    [ptr |-> <<-2, <<>> >>, rowid |-> 0, name |-> <<>>, mode |-> 0,
     mtime |-> 0, sz |-> 0]

fileinfoRoot ==
    [ptr |-> <<-1, Dot>>, rowid |-> 0, name |-> Dot, mode |-> dirMode,
     mtime |-> 0, sz |-> 0]

\* the result of an operation: an error kind, an entry, the cache after it
Res(err, info, cache) == [err |-> err, info |-> info, cache |-> cache]

\* positions of the rows of table t that satisfy P, in rowid order
SelectFrom(t, P(_)) == Ascending({i \in 1..Len(t) : P(t[i])})

(***************************************************************************)
(* dirInfoCache                                                            *)
(***************************************************************************)
\* dirInfoCache.load: nil when the key is absent
cacheHas(c, path) == path \in DOMAIN c

\* a load that answers every cached key with the root's entry
cacheLoadRoot(c, path) ==
    IF path \in DOMAIN c
    THEN (IF Dot \in DOMAIN c THEN c[Dot] ELSE fileinfoRoot)
    ELSE NoInfo

cacheLoad(c, path) == IF path \in DOMAIN c THEN c[path] ELSE NoInfo

\* a store that replaces the earlier value (last writer wins)
cacheStoreReplace(c, path, fi) ==
    [cache |-> [k \in DOMAIN c \cup {path} |-> IF k = path THEN fi ELSE c[k]],
     info |-> fi]

\* dirInfoCache.store: keeps the earlier value and returns it
cacheStore(c, path, fi) ==
    IF path \in DOMAIN c
    THEN [cache |-> c, info |-> c[path]]
    ELSE [cache |-> [k \in DOMAIN c \cup {path} |->
                        IF k = path THEN fi ELSE c[k]],
          info |-> fi]

(***************************************************************************)
(* statRoot and stat                                                       *)
(***************************************************************************)
\* SELECT rowid,'.',mode,mtime,sz FROM sqlar WHERE name='.' LIMIT 1
statRootQuery(t, who) ==
    LET hits == SelectFrom(t, LAMBDA r : r.name = Dot)
    IN  IF hits = <<>> THEN fileinfoRoot
        ELSE [ptr |-> <<who, Dot>>, rowid |-> hits[1], name |-> Dot,
              mode |-> t[hits[1]].mode, mtime |-> t[hits[1]].mtime,
              sz |-> t[hits[1]].sz]

statRoot(t, c, who) ==
    IF cacheHas(c, Dot) THEN Res("nil", cacheLoad(c, Dot), c)
    ELSE LET st == cacheStore(c, Dot, statRootQuery(t, who))
         IN  Res("nil", st.info, st.cache)

\* SELECT 1 FROM sqlar WHERE SUBSTR(name,?)=? LIMIT 1
\* with arguments len(name)+1 and name+"/"
statProbe(t, name) ==
    \E i \in 1..Len(t) :
        Substr2(t[i].name, Len(name) + 1) = name \o <<Slash>>

\* a stat that runs the probe whether or not the point lookup found a row
statQueryCountBoth(t, name) == 2

\* the number of queries stat issues for a name that is not cached: the
\* point lookup and, when it finds no row, the probe
statQueryCount(t, name) ==
    IF \E i \in 1..Len(t) : t[i].name = name /\ sqlModeFilter(t[i].mode)
    THEN 1 ELSE 2

\* the two queries of stat for a name that is not cached
statQuery(t, name, who) ==
    LET hits == SelectFrom(t,
                    LAMBDA r : r.name = name /\ sqlModeFilter(r.mode))
    IN  IF hits # <<>>
        THEN [err |-> "nil",
              info |-> [ptr |-> <<who, name>>, rowid |-> hits[1],
                        name |-> SplitFile(name), mode |-> t[hits[1]].mode,
                        mtime |-> t[hits[1]].mtime, sz |-> t[hits[1]].sz]]
        ELSE IF statProbe(t, name)
        THEN [err |-> "nil",
              info |-> [ptr |-> <<who, name>>, rowid |-> 0,
                        name |-> SplitFile(name), mode |-> dirMode,
                        mtime |-> 0, sz |-> 0]]
        ELSE [err |-> "ErrNotExist", info |-> NoInfo]

RECURSIVE stat(_, _, _, _, _)
stat(t, mask, c, name, who) ==
    LET dir == SplitDir(name)
        par == IF dir = <<>> THEN statRoot(t, c, who)
               ELSE stat(t, mask, c, SubSeq(dir, 1, Len(dir) - 1), who)
    IN  IF par.err # "nil" THEN Res(par.err, NoInfo, par.cache)
        ELSE IF dir # <<>> /\ ~IsDir(par.info)
        THEN Res("ErrNotExist", NoInfo, par.cache)
        ELSE IF ~canTraverse(mask, par.info.mode)
        THEN Res("ErrPermission", NoInfo, par.cache)
        ELSE IF cacheHas(par.cache, name)
        THEN Res("nil", cacheLoad(par.cache, name), par.cache)
        ELSE LET q == statQuery(t, name, who)
             IN  IF q.err # "nil" THEN Res(q.err, NoInfo, par.cache)
                 ELSE IF IsDir(q.info)
                 THEN LET st == cacheStore(par.cache, name, q.info)
                      IN  Res("nil", st.info, st.cache)
                 ELSE Res("nil", q.info, par.cache)

\* arfs.Stat
StatFS(t, mask, c, name, who) ==
    IF name = Dot THEN statRoot(t, c, who)
    ELSE IF ~ValidPath(name) THEN Res("ErrInvalid", NoInfo, c)
    ELSE stat(t, mask, c, name, who)

(***************************************************************************)
(* readDir and ReadDir                                                     *)
(***************************************************************************)
\* rows of the first SELECT: direct children with a non-broken mode
readDirFiles(t, name) ==
    LET nameEsc == escapeLike(name)
        hits == SelectFrom(t, LAMBDA r :
                    /\ Like(nameEsc \o <<"_", "%">>, r.name)
                    /\ ~Like(nameEsc \o <<"%", "/", "%">>, r.name)
                    /\ sqlModeFilter(r.mode))
    IN  [k \in 1..Len(hits) |->
            [rowid |-> hits[k],
             name |-> Substr2(t[hits[k]].name, 1 + Len(name)),
             mode |-> t[hits[k]].mode, mtime |-> t[hits[k]].mtime,
             sz |-> t[hits[k]].sz]]

\* SUBSTR(name, ?, INSTR(SUBSTR(name, ?), '/')-1) with both ? = 1+len(name)
subdirName(rowname, name) ==
    Substr3(rowname, 1 + Len(name),
            Instr(Substr2(rowname, 1 + Len(name)), Slash) - 1)

\* rows of the second SELECT DISTINCT: emulated subdirectories
readDirSubdirs(t, name) ==
    LET nameEsc == escapeLike(name)
        hits == SelectFrom(t, LAMBDA r :
                    /\ Like(nameEsc \o <<"_", "%", "/", "%">>, r.name)
                    /\ ~Like(nameEsc \o <<"%", "/", "%", "/", "%">>, r.name))
        firsts == SelectSeq(
                    [k \in 1..Len(hits) |-> [k |-> k, i |-> hits[k]]],
                    LAMBDA h : \A j \in 1..(h.k - 1) :
                        subdirName(t[hits[j]].name, name)
                            # subdirName(t[h.i].name, name))
    IN  [k \in 1..Len(firsts) |->
            [rowid |-> 0, name |-> subdirName(t[firsts[k].i].name, name),
             mode |-> dirMode, mtime |-> 0, sz |-> 0]]

\* SELECT ... UNION ALL SELECT DISTINCT ...
readDirRows(t, name) == readDirFiles(t, name) \o readDirSubdirs(t, name)

\* key under which readDir stores a directory entry: name+"/"+fi.name
readDirKey(name, child) == name \o <<Slash>> \o child

\* the loop over rows.Next()
RECURSIVE readDirScan(_, _, _, _, _, _, _)
readDirScan(rows, i, entries, subdirs, c, name, who) ==
    IF i > Len(rows) THEN [err |-> "nil", list |-> entries, cache |-> c]
    ELSE LET fi == [ptr |-> <<who, readDirKey(name, rows[i].name), i>>,
                    rowid |-> rows[i].rowid, name |-> rows[i].name,
                    mode |-> rows[i].mode, mtime |-> rows[i].mtime,
                    sz |-> rows[i].sz]
         IN  IF IsDir(fi)
             THEN IF fi.name \in subdirs
                  THEN readDirScan(rows, i + 1, entries, subdirs, c, name, who)
                  ELSE LET st == cacheStore(c, readDirKey(name, fi.name), fi)
                       IN  readDirScan(rows, i + 1, Append(entries, st.info),
                                       subdirs \cup {fi.name}, st.cache,
                                       name, who)
             ELSE readDirScan(rows, i + 1, Append(entries, fi), subdirs, c,
                              name, who)

readDir(t, mask, c, name, who) ==
    IF ~ValidPath(name) THEN [err |-> "ErrInvalid", list |-> <<>>, cache |-> c]
    ELSE IF name = Dot
    THEN readDirScan(readDirRows(t, <<>>), 1, <<>>, {}, c, <<>>, who)
    ELSE LET st == stat(t, mask, c, name, who)
         IN  IF st.err # "nil"
             THEN [err |-> st.err, list |-> <<>>, cache |-> st.cache]
             ELSE IF ~IsDir(st.info)
             THEN [err |-> "ErrInvalid", list |-> <<>>, cache |-> st.cache]
             ELSE IF ~canRead(mask, st.info.mode)
             THEN [err |-> "ErrPermission", list |-> <<>>, cache |-> st.cache]
             ELSE readDirScan(readDirRows(t, name \o <<Slash>>), 1, <<>>, {},
                              st.cache, name \o <<Slash>>, who)

\* the orders sort.Slice may leave a list in: ascending by name, entries with
\* equal names in any order (sort.Slice is not stable)
sortSlice(list) ==
    { [k \in 1..Len(list) |-> list[f[k]]] : f \in
        { g \in Permutations(1..Len(list)) :
            \A i, j \in 1..Len(list) :
                i < j => ~StrLess(list[g[j]].name, list[g[i]].name) } }

(***************************************************************************)
(* Open, file and dir                                                      *)
(***************************************************************************)
NoFile ==
    [kind |-> "none", fs |-> FALSE, path |-> <<>>, info |-> NoInfo,
     r |-> "nil", rem |-> 0, loaded |-> FALSE, entries |-> <<>>,
     hist |-> "new"]

\* arfs.Open: the handle a successful Open returns
OpenFS(t, mask, c, name, who) ==
    LET st == IF name = Dot THEN statRoot(t, c, who)
              ELSE IF ~ValidPath(name) THEN Res("ErrInvalid", NoInfo, c)
              ELSE stat(t, mask, c, name, who)
    IN  [err |-> st.err, cache |-> st.cache,
         f |-> IF st.err # "nil" THEN NoFile
               ELSE [kind |-> IF IsDir(st.info) THEN "dir" ELSE "file",
                     fs |-> TRUE, path |-> name, info |-> st.info,
                     r |-> "nil", rem |-> 0, loaded |-> FALSE,
                     entries |-> <<>>, hist |-> "new"]]

\* SELECT data FROM sqlar WHERE rowid=? AND (mode&32768)<>0
\* 0 when no row matches, else the position of the row
readQuery(t, rowid) ==
    IF rowid \in 1..Len(t) /\ sqlModeFilterReg(t[rowid].mode) THEN rowid ELSE 0

Min(a, b) == IF a < b THEN a ELSE b

\* one Read on the selected decoder, n = len(b) > 0.  "raw" is
\* io.NopCloser(bytes.NewReader(buf)), "flate" a flate reader over a valid
\* stream, "corrupt" a flate reader over bytes that are no deflate stream.
readerRead(f, n) ==
    CASE f.r = "raw" ->
            IF f.rem = 0 THEN [n |-> 0, err |-> "EOF", f |-> f]
            ELSE [n |-> Min(n, f.rem), err |-> "nil",
                  f |-> [f EXCEPT !.rem = f.rem - Min(n, f.rem)]]
      [] f.r = "flate" ->
            IF f.rem <= n THEN [n |-> f.rem, err |-> "EOF",
                                f |-> [f EXCEPT !.rem = 0]]
            ELSE [n |-> n, err |-> "nil", f |-> [f EXCEPT !.rem = f.rem - n]]
      [] OTHER -> [n |-> 0, err |-> "ErrCorrupt", f |-> f]

\* file.Read
fileRead(t, mask, f, n) ==
    IF f.r # "nil" THEN readerRead(f, n)
    ELSE IF ~f.fs THEN [n |-> 0, err |-> "ErrClosed", f |-> f]
    ELSE IF ~canRead(mask, f.info.mode)
    THEN [n |-> 0, err |-> "ErrPermission", f |-> f]
    ELSE LET i == readQuery(t, f.info.rowid)
         IN  IF i = 0 THEN [n |-> 0, err |-> "ErrNotExist", f |-> f]
             ELSE IF t[i].blen = f.info.sz
             THEN readerRead([f EXCEPT !.r = "raw", !.rem = t[i].blen], n)
             ELSE IF t[i].plain >= 0
             THEN readerRead([f EXCEPT !.r = "flate", !.rem = t[i].plain], n)
             ELSE readerRead([f EXCEPT !.r = "corrupt", !.rem = 0], n)

\* a Close that closes the decoder and keeps f.fs
fileCloseKeepFs(f) ==
    [err |-> IF f.r = "corrupt" THEN "ErrCorrupt" ELSE "nil",
     f |-> [f EXCEPT !.r = "nil", !.rem = 0]]

\* file.Close
fileClose(f) ==
    [err |-> IF f.r = "corrupt" THEN "ErrCorrupt" ELSE "nil",
     f |-> [f EXCEPT !.fs = FALSE, !.r = "nil", !.rem = 0]]

\* dir.ReadDir once the entries are at hand: rd is what readDir returned, or
\* the entries kept from the call before
dirReadDirBatch(rd, f, n) ==
    IF rd.err # "nil"
    THEN [err |-> rd.err, list |-> <<>>, cache |-> rd.cache,
          f |-> [f EXCEPT !.loaded = FALSE, !.entries = <<>>]]
    ELSE IF n <= 0
    THEN [err |-> "nil", list |-> rd.list, cache |-> rd.cache,
          f |-> [f EXCEPT !.loaded = TRUE, !.entries = <<>>]]
    ELSE IF Len(rd.list) <= n
    THEN [err |-> "EOF", list |-> rd.list, cache |-> rd.cache,
          f |-> [f EXCEPT !.loaded = TRUE, !.entries = <<>>]]
    ELSE [err |-> "nil", list |-> SubSeq(rd.list, 1, n), cache |-> rd.cache,
          f |-> [f EXCEPT !.loaded = f.loaded \/ rd.list # <<>>,
                   !.entries = SubSeq(rd.list, n + 1, Len(rd.list))]]

\* dir.ReadDir; loaded is "d.entries != nil"
dirReadDir(t, mask, c, f, n, who) ==
    IF ~f.fs
    THEN [err |-> "ErrClosed", list |-> <<>>, f |-> f, cache |-> c]
    ELSE dirReadDirBatch(
             IF f.loaded
             THEN [err |-> "nil", list |-> f.entries, cache |-> c]
             ELSE readDir(t, mask, c, f.path, who),
             f, n)

(***************************************************************************)
(* The sequential client: one operation at a time on one filesystem        *)
(* handle and on the file handle of its latest Open, which it lets go of   *)
(* at its next Stat or ReadDir.  last records what the latest operation    *)
(* returned.                                                               *)
(***************************************************************************)
NoPrev == [err |-> "none", info |-> NoInfo]

\* hit: the path was in the cache before the operation; prev: what the
\* operation before returned, when it was a Stat of the same path; was: the
\* hist of the handle before the operation; fired: a store query of the
\* operation reported an error
Outcome(op, path, err, info, list, n, hit, prev, was) ==
    [op |-> op, path |-> path, err |-> err, info |-> info, list |-> list,
     n |-> n, hit |-> hit, prev |-> prev, was |-> was, fired |-> FALSE]

Idle ==
    [c \in 1..NumCallers |->
        [pc |-> "idle", path |-> <<>>, lvl |-> 0, err |-> "nil",
         info |-> NoInfo, made |-> FALSE, asked |-> {}, hits |-> {}]]

Init ==
    /\ store \in Tables
    /\ permMask \in InitMasks
    /\ dirInfo = <<>>
    /\ last = Outcome("none", <<>>, "nil", NoInfo, <<>>, 0, FALSE, NoPrev, "new")
    /\ fh = NoFile
    /\ callers = Idle

Stat(p) ==
    \E r \in {StatFS(store, permMask, dirInfo, p, 0)} :
        /\ dirInfo' = r.cache
        /\ last' = Outcome("stat", p, r.err, r.info, <<>>, 0,
                           cacheHas(dirInfo, p),
                           IF last.op = "stat" /\ last.path = p
                           THEN [err |-> last.err, info |-> last.info]
                           ELSE NoPrev, "new")
        /\ fh' = NoFile
        /\ UNCHANGED <<store, permMask, callers>>

ReadDir(p) ==
    \E r \in {readDir(store, permMask, dirInfo, p, 0)} :
        /\ \E sorted \in sortSlice(r.list) :
            last' = Outcome("readdir", p, r.err, NoInfo, sorted, 0,
                            cacheHas(dirInfo, p), NoPrev, "new")
        /\ dirInfo' = r.cache
        /\ fh' = NoFile
        /\ UNCHANGED <<store, permMask, callers>>

Open(p) ==
    \E r \in {OpenFS(store, permMask, dirInfo, p, 0)} :
        /\ dirInfo' = r.cache
        /\ fh' = r.f
        /\ last' = Outcome("open", p, r.err, r.f.info, <<>>, 0,
                           cacheHas(dirInfo, p), NoPrev, "new")
        /\ UNCHANGED <<store, permMask, callers>>

FileRead(n) ==
    /\ fh.kind # "none"
    /\ \E r \in {fileRead(store, permMask, fh, n)} :
           /\ fh' = [r.f EXCEPT !.hist = IF @ = "closed" THEN @ ELSE "read"]
           /\ last' = Outcome("read", fh.path, r.err, NoInfo, <<>>, r.n,
                              FALSE, NoPrev, fh.hist)
    /\ UNCHANGED <<store, permMask, dirInfo, callers>>

FileClose ==
    /\ fh.kind # "none"
    /\ \E r \in {fileClose(fh)} :
           /\ fh' = [r.f EXCEPT !.hist = "closed"]
           /\ last' = Outcome("close", fh.path, r.err, NoInfo, <<>>, 0,
                              FALSE, NoPrev, fh.hist)
    /\ UNCHANGED <<store, permMask, dirInfo, callers>>

DirReadDir(n) ==
    /\ fh.kind = "dir"
    /\ \E r \in {dirReadDir(store, permMask, dirInfo, fh, n, 0)} :
           /\ fh' = r.f
           /\ dirInfo' = r.cache
           /\ last' = Outcome("dirreaddir", fh.path, r.err, NoInfo, r.list,
                              n, FALSE, NoPrev, fh.hist)
    /\ UNCHANGED <<store, permMask, callers>>

\* path operations on the filesystem handle
Next ==
    \/ \E p \in OpPaths : Stat(p)
    \/ \E p \in OpPaths : ReadDir(p)
    \/ \E p \in OpPaths : Open(p)

Spec == Init /\ [][Next]_vars

(***************************************************************************)
(* A store that fails.  A fault names the one query of an operation that   *)
(* reports an error: q is "root" (the query of statRoot), "lookup" or      *)
(* "probe" (the queries of stat for the path name), "list" (the query of   *)
(* readDir) or "data" (the query of Read).  QueryRow(...).Scan reports     *)
(* every error of its query in one place.  The Query of readDir can fail   *)
(* when it is started (kind "start"), when row number at is decoded by     *)
(* rows.Scan (kind "decode"), or when rows.Next fails to fetch row number  *)
(* at (kind "iter"); rows.Next then returns false and has closed the rows, *)
(* so that rows.Err() holds the error and rows.Close() returns nil.        *)
(***************************************************************************)
Fault(q, name, kind, at) == [q |-> q, name |-> name, kind |-> kind, at |-> at]

NoFault == Fault("none", <<>>, "none", 0)

FaultRows == {2, 4, 5, 7}

FaultTables ==
    { t \in Tables : \A i \in 1..Len(t) :
        \E j \in FaultRows : t[i] = CandRows[j] }

FaultPaths == { <<".">>, <<"a">>, <<"a", "/", "b">> }

StatFaults ==
    {NoFault, Fault("root", <<>>, "none", 0)}
        \cup { Fault(q, p, "none", 0) :
                    q \in {"lookup", "probe"}, p \in FaultPaths \ {Dot} }

ListFaults ==
    { Fault("list", <<>>, k, i) :
          k \in {"start", "decode", "iter"}, i \in 1..MaxRows }

ReadFaults == {NoFault, Fault("data", <<>>, "none", 0)}

\* results that also tell whether the faulty query was issued
ResF(err, info, cache, fired) ==
    [err |-> err, info |-> info, cache |-> cache, fired |-> fired]

Unfaulted(r) == ResF(r.err, r.info, r.cache, FALSE)

statRootF(t, c, who, flt) ==
    IF cacheHas(c, Dot) THEN ResF("nil", cacheLoad(c, Dot), c, FALSE)
    ELSE IF flt.q = "root" THEN ResF("StoreErr", NoInfo, c, TRUE)
    ELSE Unfaulted(statRoot(t, c, who))

\* the two queries of stat; the probe is issued only after sql.ErrNoRows
statQueryF(t, name, who, flt) ==
    IF flt.q = "lookup" /\ flt.name = name
    THEN [err |-> "StoreErr", info |-> NoInfo, fired |-> TRUE]
    ELSE IF flt.q = "probe" /\ flt.name = name /\ statQueryCount(t, name) = 2
    THEN [err |-> "StoreErr", info |-> NoInfo, fired |-> TRUE]
    ELSE [err |-> statQuery(t, name, who).err,
          info |-> statQuery(t, name, who).info, fired |-> FALSE]

\* stat once its parent is resolved and lets through
statLeafF(par, q, name) ==
    IF cacheHas(par.cache, name)
    THEN ResF("nil", cacheLoad(par.cache, name), par.cache, FALSE)
    ELSE IF q.err # "nil" THEN ResF(q.err, NoInfo, par.cache, q.fired)
    ELSE IF IsDir(q.info)
    THEN ResF("nil", cacheStore(par.cache, name, q.info).info,
              cacheStore(par.cache, name, q.info).cache, FALSE)
    ELSE ResF("nil", q.info, par.cache, FALSE)

statCheckF(par, isRoot, mask, q, name) ==
    IF par.err # "nil" THEN ResF(par.err, NoInfo, par.cache, par.fired)
    ELSE IF ~isRoot /\ ~IsDir(par.info)
    THEN ResF("ErrNotExist", NoInfo, par.cache, FALSE)
    ELSE IF ~canTraverse(mask, par.info.mode)
    THEN ResF("ErrPermission", NoInfo, par.cache, FALSE)
    ELSE statLeafF(par, q, name)

RECURSIVE statF(_, _, _, _, _, _)
statF(t, mask, c, name, who, flt) ==
    statCheckF(IF SplitDir(name) = <<>> THEN statRootF(t, c, who, flt)
               ELSE statF(t, mask, c,
                          SubSeq(SplitDir(name), 1, Len(SplitDir(name)) - 1),
                          who, flt),
               SplitDir(name) = <<>>, mask,
               statQueryF(t, name, who, flt), name)

\* arfs.Stat on a store that fails
StatFSF(t, mask, c, name, who, flt) ==
    IF name = Dot THEN statRootF(t, c, who, flt)
    ELSE IF ~ValidPath(name) THEN ResF("ErrInvalid", NoInfo, c, FALSE)
    ELSE statF(t, mask, c, name, who, flt)

\* the loop of readDir when rows.Next fails at row number at: the rows
\* before it are scanned, rows.Err() is compared with itself and dropped,
\* rows.Close() returns nil
readDirIterFails(rows, at, c, name, who) ==
    [err |-> "nil",
     list |-> readDirScan(SubSeq(rows, 1, at - 1), 1, <<>>, {}, c, name,
                          who).list,
     cache |-> readDirScan(SubSeq(rows, 1, at - 1), 1, <<>>, {}, c, name,
                           who).cache,
     fired |-> TRUE]

\* the query of readDir and its loop, on a store that fails
readDirQueryF(rows, c, name, who, flt) ==
    IF flt.q = "list" /\ flt.kind = "start"
    THEN [err |-> "StoreErr", list |-> <<>>, cache |-> c, fired |-> TRUE]
    ELSE IF flt.q = "list" /\ flt.kind = "decode" /\ flt.at <= Len(rows)
    THEN [err |-> "StoreErr",
          list |-> readDirScan(SubSeq(rows, 1, flt.at - 1), 1, <<>>, {}, c,
                               name, who).list,
          cache |-> readDirScan(SubSeq(rows, 1, flt.at - 1), 1, <<>>, {}, c,
                                name, who).cache,
          fired |-> TRUE]
    ELSE IF flt.q = "list" /\ flt.kind = "iter" /\ flt.at <= Len(rows) + 1
    THEN readDirIterFails(rows, flt.at, c, name, who)
    ELSE [err |-> "nil",
          list |-> readDirScan(rows, 1, <<>>, {}, c, name, who).list,
          cache |-> readDirScan(rows, 1, <<>>, {}, c, name, who).cache,
          fired |-> FALSE]

readDirCheckF(st, t, mask, name, who, flt) ==
    IF st.err # "nil"
    THEN [err |-> st.err, list |-> <<>>, cache |-> st.cache,
          fired |-> st.fired]
    ELSE IF ~IsDir(st.info)
    THEN [err |-> "ErrInvalid", list |-> <<>>, cache |-> st.cache,
          fired |-> FALSE]
    ELSE IF ~canRead(mask, st.info.mode)
    THEN [err |-> "ErrPermission", list |-> <<>>, cache |-> st.cache,
          fired |-> FALSE]
    ELSE readDirQueryF(readDirRows(t, name \o <<Slash>>), st.cache,
                       name \o <<Slash>>, who, flt)

readDirF(t, mask, c, name, who, flt) ==
    IF ~ValidPath(name)
    THEN [err |-> "ErrInvalid", list |-> <<>>, cache |-> c, fired |-> FALSE]
    ELSE IF name = Dot
    THEN readDirQueryF(readDirRows(t, <<>>), c, <<>>, who, flt)
    ELSE readDirCheckF(statF(t, mask, c, name, who, flt), t, mask, name, who,
                       flt)

\* file.Read on a store that fails
fileReadF(t, mask, f, n, flt) ==
    IF f.r = "nil" /\ f.fs /\ canRead(mask, f.info.mode) /\ flt.q = "data"
    THEN [n |-> 0, err |-> "StoreErr", f |-> f, fired |-> TRUE]
    ELSE [n |-> fileRead(t, mask, f, n).n, err |-> fileRead(t, mask, f, n).err,
          f |-> fileRead(t, mask, f, n).f, fired |-> FALSE]

InitFault ==
    /\ store \in FaultTables
    /\ permMask \in InitMasks
    /\ dirInfo = <<>>
    /\ last = Outcome("none", <<>>, "nil", NoInfo, <<>>, 0, FALSE, NoPrev, "new")
    /\ fh = NoFile
    /\ callers = Idle

StatFault(p, flt) ==
    \E r \in {StatFSF(store, permMask, dirInfo, p, 0, flt)} :
        /\ dirInfo' = r.cache
        /\ last' = [Outcome("stat", p, r.err, r.info, <<>>, 0,
                            cacheHas(dirInfo, p), NoPrev, "new")
                        EXCEPT !.fired = r.fired]
        /\ fh' = NoFile
        /\ UNCHANGED <<store, permMask, callers>>

ReadDirFault(p, flt) ==
    \E r \in {readDirF(store, permMask, dirInfo, p, 0, flt)} :
        /\ \E sorted \in sortSlice(r.list) :
            last' = [Outcome("readdir", p, r.err, NoInfo, sorted, 0,
                             cacheHas(dirInfo, p), NoPrev, "new")
                        EXCEPT !.fired = r.fired]
        /\ dirInfo' = r.cache
        /\ fh' = NoFile
        /\ UNCHANGED <<store, permMask, callers>>

FileReadFault(n, flt) ==
    /\ fh.kind # "none"
    /\ \E r \in {fileReadF(store, permMask, fh, n, flt)} :
           /\ fh' = [r.f EXCEPT !.hist = IF @ = "closed" THEN @ ELSE "read"]
           /\ last' = [Outcome("read", fh.path, r.err, NoInfo, <<>>, r.n,
                               FALSE, NoPrev, fh.hist)
                           EXCEPT !.fired = r.fired]
    /\ UNCHANGED <<store, permMask, dirInfo, callers>>

\* Stat, ReadDir and Read on a store whose queries may fail
NextFault ==
    \/ \E p \in FaultPaths, flt \in StatFaults : StatFault(p, flt)
    \/ \E p \in FaultPaths, flt \in StatFaults \cup ListFaults :
          ReadDirFault(p, flt)
    \/ \E p \in FaultPaths : Open(p)
    \/ \E n \in 1..MaxBuf, flt \in ReadFaults : FileReadFault(n, flt)

SpecFault == InitFault /\ [][NextFault]_vars

\* the operations of a permission round trip: Stat, Open and Read
NextPerm ==
    \/ \E p \in OpPaths : Stat(p)
    \/ \E p \in OpPaths : Open(p)
    \/ \E n \in 1..MaxBuf : FileRead(n)

SpecPerm == Init /\ [][NextPerm]_vars

\* operations on the handle an Open returned (a dir embeds file, so Read and
\* Close apply to both kinds of handle)
NextFile ==
    \/ \E p \in OpPaths : Open(p)
    \/ \E n \in 1..MaxBuf : FileRead(n)
    \/ FileClose
    \/ \E n \in 0..MaxBuf : DirReadDir(n)

SpecFile == Init /\ [][NextFile]_vars

(***************************************************************************)
(* Concurrent callers of Stat on one filesystem handle.  Each caller runs  *)
(* one Stat; the steps that touch shared state are atomic one by one: the  *)
(* cache load (under RLock), the store queries, the cache store (under     *)
(* Lock).  lvl counts the levels of the path already resolved: level 0 is  *)
(* the root, level k the prefix of the path with k segments.               *)
(***************************************************************************)
ParRows == {2, 4, 7}

ParTables ==
    { t \in Tables : \A i \in 1..Len(t) :
        \E j \in ParRows : t[i] = CandRows[j] }

ParPaths == { <<".">>, <<"a">>, <<"a", "/", "b">> }

\* number of segments of a valid path, 0 for the root
Depth(path) ==
    IF path = Dot THEN 0
    ELSE 1 + Cardinality({i \in 1..Len(path) : path[i] = Slash})

\* the prefix of path with k segments, the root for k = 0
Level(path, k) ==
    IF k = 0 THEN Dot
    ELSE IF k = Depth(path) THEN path
    ELSE LET cut == CHOOSE i \in 1..Len(path) :
                      /\ path[i] = Slash
                      /\ Cardinality({j \in 1..i : path[j] = Slash}) = k
         IN  SubSeq(path, 1, cut - 1)

\* made: the caller has allocated an entry of its own for the path it asked
\* for (it went past the cache load and the store query of the last level)
Caller(pc, path, lvl, err, info) ==
    [pc |-> pc, path |-> path, lvl |-> lvl, err |-> err, info |-> info,
     made |-> FALSE, asked |-> {}, hits |-> {}]

\* what caller c has observed so far in its call: asked, the store queries it
\* has issued, as pairs <<level, ordinal>>; hits, the levels whose key was in
\* the cache when it loaded them
Seen(c, rec) ==
    [rec EXCEPT !.asked = callers[c].asked, !.hits = callers[c].hits]

InitPar ==
    /\ store \in ParTables
    /\ permMask \in InitMasks
    /\ dirInfo = <<>>
    /\ last = Outcome("none", <<>>, "nil", NoInfo, <<>>, 0, FALSE, NoPrev, "new")
    /\ fh = NoFile
    /\ callers = Idle

\* caller c has the entry of level lvl in hand: the checks stat makes on its
\* parent's entry, or the return of the leaf's entry
Resolved(c, info) ==
    LET me == callers[c]
    IN  IF me.lvl = Depth(me.path)
        THEN Caller("done", me.path, me.lvl, "nil", info)
        ELSE IF me.lvl > 0 /\ ~IsDir(info)
        THEN Caller("done", me.path, me.lvl, "ErrNotExist", NoInfo)
        ELSE IF ~canTraverse(permMask, info.mode)
        THEN Caller("done", me.path, me.lvl, "ErrPermission", NoInfo)
        ELSE Caller("load", me.path, me.lvl + 1, "nil", NoInfo)

\* arfs.Stat is called; all callers ask for the same path
CallStat(c, p) ==
    /\ callers[c].pc = "idle"
    /\ \A d \in 1..NumCallers : callers[d].pc # "idle" => callers[d].path = p
    /\ callers' = [callers EXCEPT ![c] =
                      IF p # Dot /\ ~ValidPath(p)
                      THEN Caller("done", p, 0, "ErrInvalid", NoInfo)
                      ELSE Caller("load", p, 0, "nil", NoInfo)]
    /\ UNCHANGED <<store, permMask, dirInfo, last, fh>>

\* dirInfoCache.load of the current level
CacheLoad(c) ==
    /\ callers[c].pc = "load"
    /\ LET key == Level(callers[c].path, callers[c].lvl)
       IN  callers' = [callers EXCEPT ![c] =
                          IF cacheHas(dirInfo, key)
                          THEN [Seen(c, Resolved(c, cacheLoad(dirInfo, key)))
                                   EXCEPT !.hits = @ \cup {callers[c].lvl}]
                          ELSE [@ EXCEPT !.pc = "query"]]
    /\ UNCHANGED <<store, permMask, dirInfo, last, fh>>

\* the queries of statRoot or stat for the current level
StoreQuery(c) ==
    /\ callers[c].pc = "query"
    /\ LET me == callers[c]
           key == Level(me.path, me.lvl)
           q == IF me.lvl = 0
                THEN [err |-> "nil", info |-> statRootQuery(store, c)]
                ELSE statQuery(store, key, c)
           nq == IF me.lvl = 0 THEN 1 ELSE statQueryCount(store, key)
       IN  callers' = [callers EXCEPT ![c] =
                          [Seen(c,
                              IF q.err # "nil"
                              THEN Caller("done", me.path, me.lvl, q.err, NoInfo)
                              ELSE IF me.lvl = 0 \/ IsDir(q.info)
                              THEN Caller("store", me.path, me.lvl, "nil",
                                          q.info)
                              ELSE Resolved(c, q.info))
                           EXCEPT !.asked =
                              @ \cup {<<me.lvl, i>> : i \in 1..nq}]]
    /\ UNCHANGED <<store, permMask, dirInfo, last, fh>>

\* dirInfoCache.store of the entry just built
CacheStore(c) ==
    /\ callers[c].pc = "store"
    /\ LET me == callers[c]
           st == cacheStore(dirInfo, Level(me.path, me.lvl), me.info)
       IN  /\ dirInfo' = st.cache
           /\ callers' = [callers EXCEPT ![c] =
                             [Seen(c, Resolved(c, st.info)) EXCEPT
                                 !.made = me.lvl = Depth(me.path)]]
    /\ UNCHANGED <<store, permMask, last, fh>>

NextPar ==
    \/ \E c \in 1..NumCallers, p \in ParPaths : CallStat(c, p)
    \/ \E c \in 1..NumCallers : CacheLoad(c)
    \/ \E c \in 1..NumCallers : StoreQuery(c)
    \/ \E c \in 1..NumCallers : CacheStore(c)

SpecPar == InitPar /\ [][NextPar]_vars

(***************************************************************************)
(* What the archive says, read off the table alone.                        *)
(***************************************************************************)
\* exactly one of the two type bits
OneType(mode) == sqlModeFilterReg(mode) # (BitAnd(mode, S_IFDIR) # 0)

HasRow(t, p) == \E i \in 1..Len(t) : t[i].name = p

\* some row named p has a mode with exactly one type bit
HasGoodRow(t, p) == \E i \in 1..Len(t) : t[i].name = p /\ OneType(t[i].mode)

GoodRow(t, p) == t[CHOOSE i \in 1..Len(t) : t[i].name = p /\ OneType(t[i].mode)]

HasDirRow(t, p) ==
    \E i \in 1..Len(t) :
        t[i].name = p /\ OneType(t[i].mode) /\ ~sqlModeFilterReg(t[i].mode)

IsPrefix(pre, str) ==
    Len(pre) <= Len(str) /\ SubSeq(str, 1, Len(pre)) = pre

\* some row's name begins with p/
HasDeeper(t, p) ==
    \E i \in 1..Len(t) : IsPrefix(p \o <<Slash>>, t[i].name)

ProperAncestors(p) ==
    { SubSeq(p, 1, i - 1) : i \in { j \in 1..Len(p) : p[j] = Slash } }

\* p denotes a directory: an explicit directory row, or no row and deeper rows
DenotesDir(t, p) == HasDirRow(t, p) \/ (~HasRow(t, p) /\ HasDeeper(t, p))

\* the mode of the directory p: the explicit row's, else the synthesized one
DirModeOf(t, p) == IF HasDirRow(t, p) THEN GoodRow(t, p).mode ELSE dirMode

\* the root and every proper ancestor of p are directories that the mask
\* lets through
AncestorsTraversable(t, mask, p) ==
    /\ (HasRow(t, Dot) => HasDirRow(t, Dot))
    /\ canTraverse(mask, DirModeOf(t, Dot))
    /\ \A a \in ProperAncestors(p) :
          DenotesDir(t, a) /\ canTraverse(mask, DirModeOf(t, a))

\* the root and every proper ancestor of p are directories, and the mask
\* stops at one of them
SomeAncestorBlocked(t, mask, p) ==
    /\ (HasRow(t, Dot) => HasDirRow(t, Dot))
    /\ \A a \in ProperAncestors(p) : DenotesDir(t, a)
    /\ \/ ~canTraverse(mask, DirModeOf(t, Dot))
       \/ \E a \in ProperAncestors(p) : ~canTraverse(mask, DirModeOf(t, a))

StatOf(p) == last.op = "stat" /\ last.path = p

Synthesized(fi) ==
    /\ ModeType(fi) = "dir" /\ IsDir(fi)
    /\ ModePerm(fi) = 365
    /\ fi.sz = 0 /\ fi.mtime = 0

(***************************************************************************)
(* C1: stat(p) of a valid non-root path is denied whenever the root or a    *)
(* proper ancestor directory of p has no execute bit that survives the     *)
(* mask, whatever was done and cached before.                              *)
(***************************************************************************)
C1_AncestorDenied ==
    \A p \in OpPaths :
        ( /\ StatOf(p) /\ p # Dot /\ ValidPath(p)
          /\ SomeAncestorBlocked(store, permMask, p) )
        => last.err = "ErrPermission"

(***************************************************************************)
(* C2: below traversable ancestors, stat(p) returns a synthesized          *)
(* directory (0555, size 0, mtime 0) when no good row is named p and some  *)
(* row's name begins with p/, and not-found when no row is named p and     *)
(* none begins with p/.                                                    *)
(***************************************************************************)
C2_SynthesizedDir ==
    \A p \in OpPaths :
        ( /\ StatOf(p) /\ p # Dot /\ ValidPath(p)
          /\ AncestorsTraversable(store, permMask, p) )
        => /\ (~HasGoodRow(store, p) /\ HasDeeper(store, p))
                => (last.err = "nil" /\ Synthesized(last.info))
           /\ (~HasRow(store, p) /\ ~HasDeeper(store, p))
                => last.err = "ErrNotExist"

\* the prefix the rows below directory d share
PrefixOfDir(d) == IF d = Dot THEN <<>> ELSE d \o <<Slash>>

\* the parent directory of a row name
ParentOf(name) ==
    IF LastSlash(name) = 0 THEN Dot ELSE SubSeq(name, 1, LastSlash(name) - 1)

\* names of the rows one level below d with a good mode
DirectChildren(t, d) ==
    { Substr2(t[i].name, Len(PrefixOfDir(d)) + 1) :
        i \in { j \in 1..Len(t) :
                  /\ OneType(t[j].mode)
                  /\ IsPrefix(PrefixOfDir(d), t[j].name)
                  /\ Len(t[j].name) > Len(PrefixOfDir(d))
                  /\ Instr(Substr2(t[j].name, Len(PrefixOfDir(d)) + 1),
                           Slash) = 0 } }

\* next segments of the rows two or more levels below d
InferredChildren(t, d) ==
    { SubSeq(Substr2(t[i].name, Len(PrefixOfDir(d)) + 1), 1,
             Instr(Substr2(t[i].name, Len(PrefixOfDir(d)) + 1), Slash) - 1) :
        i \in { j \in 1..Len(t) :
                  /\ IsPrefix(PrefixOfDir(d), t[j].name)
                  /\ Instr(Substr2(t[j].name, Len(PrefixOfDir(d)) + 1),
                           Slash) > 1 } }

ListedNames == { last.list[k].name : k \in 1..Len(last.list) }

(***************************************************************************)
(* C3: a successful list(d) returns the good rows one level below d and    *)
(* one directory for each distinct next segment of the rows two or more    *)
(* levels below d, at any depth, and nothing else.                         *)
(***************************************************************************)
C3_ListExact ==
    (last.op = "readdir" /\ last.err = "nil")
    => ListedNames = DirectChildren(store, last.path)
                        \cup InferredChildren(store, last.path)

(***************************************************************************)
(* C4: the entries list(d) returns are strictly ascending by name, so no    *)
(* name appears twice.                                                     *)
(***************************************************************************)
C4_ListSorted ==
    last.op = "readdir"
    => \A i, j \in 1..Len(last.list) :
          i < j => StrLess(last.list[i].name, last.list[j].name)

\* entry fi carries the metadata of the good row named p
CarriesRow(fi, t, p) ==
    /\ fi.mode = GoodRow(t, p).mode
    /\ fi.mtime = GoodRow(t, p).mtime
    /\ fi.rowid \in 1..Len(t)
    /\ t[fi.rowid] = GoodRow(t, p)

\* the rows that are explicit directories with rows below them
DirRowsWithDeeper(t) ==
    { t[i].name : i \in { j \in 1..Len(t) :
        /\ t[j].name # Dot
        /\ HasDirRow(t, t[j].name)
        /\ HasDeeper(t, t[j].name) } }

(***************************************************************************)
(* C5: a path with an explicit directory row and rows below it is          *)
(* reported with the explicit row's mode, mtime and identity, by stat and  *)
(* by its one entry in the listing of its parent; synthesized metadata     *)
(* appears only for a path without an explicit directory row.              *)
(***************************************************************************)
C5_ExplicitWins ==
    /\ \A p \in DirRowsWithDeeper(store) :
          ( StatOf(p) /\ ValidPath(p)
            /\ AncestorsTraversable(store, permMask, p) )
          => (last.err = "nil" /\ CarriesRow(last.info, store, p))
    /\ \A p \in DirRowsWithDeeper(store) :
          ( last.op = "readdir" /\ last.err = "nil"
            /\ ParentOf(p) = last.path )
          => /\ Cardinality({ k \in 1..Len(last.list) :
                    last.list[k].name = SplitFile(p) }) = 1
             /\ \A k \in 1..Len(last.list) :
                    last.list[k].name = SplitFile(p)
                    => CarriesRow(last.list[k], store, p)
    /\ ( last.op = "stat" /\ last.err = "nil" /\ last.path # Dot
         /\ last.info.rowid = 0 /\ Synthesized(last.info) )
          => ~HasDirRow(store, last.path)

(***************************************************************************)
(* C6: no entry is built from a row whose mode has neither or both type    *)
(* bits: what stat returns, for the root and below it, and every entry of  *)
(* a listing, has exactly one of the two types.                            *)
(***************************************************************************)
C6_NoBrokenRow ==
    /\ (last.op = "stat" /\ last.err = "nil") => OneType(last.info.mode)
    /\ last.op = "readdir"
          => \A k \in 1..Len(last.list) : OneType(last.list[k].mode)

(***************************************************************************)
(* C7.  Concurrent callers of stat on one directory path that nobody has   *)
(* resolved before: under every interleaving of their cache loads, store   *)
(* queries and cache stores, an entry once in the cache is never replaced  *)
(* or removed, and every caller that returns a directory returns the very  *)
(* entry the cache holds for its path, the same allocation and not only    *)
(* equal values; so all callers return one and the same entry.             *)
(***************************************************************************)
CacheKeeps ==
    \A k \in DOMAIN dirInfo :
        k \in DOMAIN dirInfo' /\ dirInfo'[k] = dirInfo[k]

ReturnsCached(c) ==
    (callers[c].pc = "done" /\ callers[c].err = "nil" /\ IsDir(callers[c].info))
        => /\ cacheHas(dirInfo, callers[c].path)
           /\ dirInfo[callers[c].path] = callers[c].info
           /\ \A d \in 1..NumCallers :
                 (callers[d].pc = "done" /\ callers[d].err = "nil")
                     => callers[d].info.ptr = callers[c].info.ptr

C7_OneSharedEntry ==
    /\ [](\A c \in 1..NumCallers : ReturnsCached(c))
    /\ [][CacheKeeps]_vars

\* two callers both missed the cache and built an entry of their own for a
\* directory below the root, and both have returned
C7_Witness ==
    /\ \A c \in 1..2 :
          /\ callers[c].pc = "done" /\ callers[c].err = "nil"
          /\ callers[c].made /\ IsDir(callers[c].info)
    /\ callers[1].path = <<"a", "/", "b">>
    /\ callers[2].path = callers[1].path

(***************************************************************************)
(* C8.  On the handle of an open regular file, whatever Read and Close     *)
(* calls came before: Close returns no error on a handle that was never    *)
(* read and on a handle that is already closed, and a Read after a Close   *)
(* fails with ErrClosed, returns no byte and leaves the handle without a   *)
(* decoder (nothing was fetched from the store).                           *)
(***************************************************************************)
C8_ReadCloseStates ==
    fh.kind = "file" =>
        /\ (last.op = "close" /\ last.was \in {"new", "closed"})
              => last.err = "nil"
        /\ (last.op = "read" /\ last.was = "closed")
              => last.err = "ErrClosed" /\ last.n = 0 /\ fh.r = "nil"
        /\ fh.hist = "closed" => ~fh.fs /\ fh.r = "nil"

\* a Read on a closed handle of a regular file that the mask lets read
C8_Witness ==
    /\ fh.kind = "file" /\ last.op = "read" /\ last.was = "closed"
    /\ last.err = "ErrClosed"
    /\ canRead(permMask, fh.info.mode)

(***************************************************************************)
(* C10.  A Stat of path p right after a Stat of the same p, whatever ran   *)
(* before them, gives the same outcome: the same error kind, or two        *)
(* entries equal in type, mode, mtime and size.                            *)
(***************************************************************************)
C10_StatTwice ==
    (last.op = "stat" /\ last.prev.err # "none") =>
        /\ last.err = last.prev.err
        /\ last.err = "nil" =>
              /\ ModeType(last.info) = ModeType(last.prev.info)
              /\ last.info.mode = last.prev.info.mode
              /\ last.info.mtime = last.prev.info.mtime
              /\ last.info.sz = last.prev.info.sz

\* the second Stat of a directory below the root, served from the cache
C10_Witness ==
    /\ last.op = "stat" /\ last.prev.err = "nil" /\ last.err = "nil"
    /\ last.path # Dot /\ IsDir(last.info) /\ last.hit
    /\ last.info.rowid > 0

\* a mode that grants permission bits to the owner only
OwnerOnly(mode) ==
    BitAnd(mode, PermOwner) # 0 /\ BitAnd(mode, PermGroup + PermOthers) = 0

\* p has a row of its own below directories, one of which has an explicit
\* row whose mode grants owner bits only
BelowOwnerOnlyDir(t, p) ==
    /\ p # Dot /\ ValidPath(p) /\ HasGoodRow(t, p)
    /\ (HasRow(t, Dot) => HasDirRow(t, Dot))
    /\ \A a \in ProperAncestors(p) : DenotesDir(t, a)
    /\ \E a \in ProperAncestors(p) :
          HasDirRow(t, a) /\ OwnerOnly(GoodRow(t, a).mode)

(***************************************************************************)
(* C9.  Permission round trip.  Under the mask PermOthers, Stat of a path  *)
(* below a directory whose mode grants owner bits only is denied, and the  *)
(* first Read on the open handle of a regular file whose mode grants owner *)
(* bits only is denied without fetching anything; under the mask PermAny,  *)
(* on the same rows, the Stat and the Read both succeed.                   *)
(***************************************************************************)
C9_PermRoundTrip ==
    /\ \A p \in OpPaths :
          (StatOf(p) /\ BelowOwnerOnlyDir(store, p))
              => /\ permMask = PermOthers => last.err = "ErrPermission"
                 /\ permMask = PermAny => last.err = "nil"
    /\ ( /\ last.op = "read" /\ fh.kind = "file" /\ last.was = "new"
          /\ OneType(fh.info.mode) /\ OwnerOnly(fh.info.mode) )
              => /\ permMask = PermOthers
                       => (last.err = "ErrPermission" /\ last.n = 0
                             /\ fh.r = "nil")
                 /\ permMask = PermAny
                       => (last.err \in {"nil", "EOF"} /\ fh.r # "nil")

\* the number of store queries caller c has issued for level k of its path
QueriesAt(c, k) == Cardinality({q \in callers[c].asked : q[1] = k})

\* the levels of the path caller c asked for
LevelsOf(c) == 0..Depth(callers[c].path)

\* the point lookup of level k of caller c's path finds a row
LookupFinds(c, k) ==
    \E i \in 1..Len(store) :
        /\ store[i].name = Level(callers[c].path, k)
        /\ sqlModeFilter(store[i].mode)

(***************************************************************************)
(* C11 as stated.  During one stat, for each level of the path (the root,  *)
(* each ancestor, the leaf): at most one store query when the level is not *)
(* in the cache, and no store query when it is.                            *)
(***************************************************************************)
C11_OneQueryPerLevel ==
    \A c \in 1..NumCallers :
        callers[c].pc # "idle" =>
            \A k \in LevelsOf(c) :
                /\ QueriesAt(c, k) <= 1
                /\ k \in callers[c].hits => QueriesAt(c, k) = 0

(***************************************************************************)
(* C11 amended.  During one stat, for each level of the path: no store     *)
(* query when the level is in the cache; otherwise at most two, the point  *)
(* lookup and, only when the lookup finds no row, the prefix probe; at     *)
(* most one for the root and for a level whose lookup finds a row.         *)
(***************************************************************************)
C11_TwoQueriesPerLevel ==
    \A c \in 1..NumCallers :
        callers[c].pc # "idle" =>
            \A k \in LevelsOf(c) :
                /\ QueriesAt(c, k) <= 2
                /\ k \in callers[c].hits => QueriesAt(c, k) = 0
                /\ (k = 0 \/ LookupFinds(c, k)) => QueriesAt(c, k) <= 1

\* a caller has returned after a level served from the cache, a level whose
\* lookup found a row, and a level that took the lookup and the probe
C11_Witness ==
    \E c \in 1..NumCallers :
        /\ callers[c].pc = "done"
        /\ callers[c].hits # {}
        /\ \E k \in LevelsOf(c) : LookupFinds(c, k) /\ QueriesAt(c, k) = 1
        /\ \E k \in LevelsOf(c) : QueriesAt(c, k) = 2

(***************************************************************************)
(* C12.  Whenever a store query issued by Stat, ReadDir or Read reports an *)
(* error (when it is started, when a row is decoded, or while the rows are *)
(* fetched), the operation returns that store error; it never returns      *)
(* success with a partial or empty result.                                 *)
(***************************************************************************)
C12_StoreErrorReturned ==
    (last.op \in {"stat", "readdir", "read"} /\ last.fired)
        => last.err = "StoreErr"

\* the full path of the child called x of directory d
ChildPath(d, x) == IF d = Dot THEN x ELSE d \o <<Slash>> \o x

(***************************************************************************)
(* C13.  After any sequence of Stat, ReadDir and Open, every key of the    *)
(* cache is a valid path (the root "." or non-empty segments joined by     *)
(* single '/', no leading or trailing '/'), and every directory entry of   *)
(* the listing ReadDir(d) just returned is in the cache under the full     *)
(* path of that child, the key a later Stat of the child looks up.         *)
(***************************************************************************)
C13_CacheKeysValid ==
    /\ \A k \in DOMAIN dirInfo : ValidPath(k)
    /\ (last.op = "readdir" /\ last.err = "nil") =>
          \A i \in 1..Len(last.list) :
              IsDir(last.list[i]) =>
                  /\ cacheHas(dirInfo, ChildPath(last.path, last.list[i].name))
                  /\ dirInfo[ChildPath(last.path, last.list[i].name)]
                        = last.list[i]

\* d has an explicit directory row whose mode has no read bit that survives
\* the mask, below ancestors that let through
UnreadableDir(t, mask, d) ==
    /\ ValidPath(d) /\ HasDirRow(t, d)
    /\ ~canRead(mask, GoodRow(t, d).mode)
    /\ (d = Dot \/ AncestorsTraversable(t, mask, d))

(***************************************************************************)
(* C14.  For every directory d, the root included when the archive holds   *)
(* an explicit root row: ReadDir(d) returns permission-denied and no entry *)
(* whenever d's own mode has no read bit that survives the mask.           *)
(***************************************************************************)
C14_ListNeedsRead ==
    \A d \in OpPaths :
        (last.op = "readdir" /\ last.path = d
            /\ UnreadableDir(store, permMask, d))
        => (last.err = "ErrPermission" /\ last.list = <<>>)

NamesOf(list) == [i \in 1..Len(list) |-> list[i].name]

SortedByName(list) ==
    \A i, j \in 1..Len(list) :
        i < j => ~StrLess(list[j].name, list[i].name)

IsSuffix(tail, whole) ==
    /\ Len(tail) <= Len(whole)
    /\ SubSeq(whole, Len(whole) - Len(tail) + 1, Len(whole)) = tail

\* the names ReadDir(d) lists, in its sorted order
ListingOf(d) ==
    NamesOf(CHOOSE l \in
                sortSlice(readDir(store, permMask, dirInfo, d, 0).list) : TRUE)

(***************************************************************************)
(* C15.  On an open directory handle, for ReadDir(n) with n > 0: a batch   *)
(* holds at most n entries; the batch followed by the entries still to     *)
(* come is the tail of the directory's listing in the sorted order of      *)
(* ReadDir(d), so that the batches together are that listing, each entry   *)
(* once; io.EOF is returned exactly with an empty batch, never with        *)
(* entries; after Close every ReadDir fails with ErrClosed.                *)
(***************************************************************************)
C15_DirBatches ==
    (fh.kind = "dir" /\ last.op = "dirreaddir" /\ last.n > 0) =>
        /\ last.was = "closed"
              => (last.err = "ErrClosed" /\ last.list = <<>>)
        /\ (last.was # "closed" /\ last.err \in {"nil", "EOF"}) =>
              /\ Len(last.list) <= last.n
              /\ SortedByName(last.list \o fh.entries)
              /\ IsSuffix(NamesOf(last.list \o fh.entries),
                          ListingOf(fh.path))
              /\ (last.err = "EOF") <=> (last.list = <<>>)

\* the names a child can have in the archives considered
Segments == { <<"a">>, <<"b">>, <<"A">>, <<"a", "a">> }

\* a valid single path segment: not empty, not ".", without '/'
ValidSegment(x) ==
    x # <<>> /\ x # Dot /\ \A i \in 1..Len(x) : x[i] # Slash

\* what Stat of the child called x of directory d returns now
StatChild(d, x) == StatFS(store, permMask, dirInfo, ChildPath(d, x), 0)

\* Stat resolves d to a directory that the mask lets read and traverse
ReadableDir(d) ==
    /\ StatFS(store, permMask, dirInfo, d, 0).err = "nil"
    /\ IsDir(StatFS(store, permMask, dirInfo, d, 0).info)
    /\ canRead(permMask, StatFS(store, permMask, dirInfo, d, 0).info.mode)
    /\ canTraverse(permMask,
                   StatFS(store, permMask, dirInfo, d, 0).info.mode)

\* entry e and the result st of a Stat agree in type and mode
SameEntry(e, st) ==
    /\ st.err = "nil"
    /\ IsDir(st.info) = IsDir(e)
    /\ st.info.mode = e.mode

(***************************************************************************)
(* C16.  ReadDir and Stat agree: for a directory d that is readable and    *)
(* traversable, every entry of ReadDir(d) has a name that is a valid       *)
(* single segment (not ".", without '/') and Stat of d/name succeeds with  *)
(* the entry's type and mode; and every name x for which Stat of d/x       *)
(* succeeds is listed with that type and mode.                             *)
(***************************************************************************)
C16_ListStatAgree ==
    \A d \in OpPaths :
        ( /\ last.op = "readdir" /\ last.path = d /\ last.err = "nil"
          /\ ValidPath(d) /\ ReadableDir(d) )
        => /\ \A i \in 1..Len(last.list) :
                 /\ ValidSegment(last.list[i].name)
                 /\ SameEntry(last.list[i],
                              StatChild(d, last.list[i].name))
           /\ \A x \in Segments :
                 StatChild(d, x).err = "nil"
                 => \E i \in 1..Len(last.list) :
                        /\ last.list[i].name = x
                        /\ SameEntry(last.list[i], StatChild(d, x))

====
